---- MODULE Spec2Model ----
(***************************************************************************)
(* Model of src/src/classes.js: the Type class (the constructor that       *)
(* builds a Type from parsed JSON and Type.toString(), which renders it)   *)
(* and the documentation entities built on it (their constructors and      *)
(* their toClass(), toString() and toField() declaration builders).        *)
(*                                                                         *)
(* A JavaScript string is a sequence of one-character strings, so that     *)
(* concatenation, join and comparison are computed character by character. *)
(* A JavaScript value is a record tagged by t:                             *)
(*   "undefined", "null", "string" (s), "number" (n), "boolean" (b),       *)
(*   "array" (items), "object" (the fields the JSON carries),              *)
(*   "Type" (an instance of class Type), the name of an entity class (an   *)
(*   instance of it), "TypeError" (a thrown TypeError).                    *)
(*                                                                         *)
(* Spec runs the Type class on JSON type expressions; SpecEntity runs the  *)
(* constructor and the declaration builder of one entity of class cls.     *)
(***************************************************************************)
EXTENDS Integers, Sequences, FiniteSets, TLC

VARIABLES json, type, result, pc, cls, entity

vars == <<json, type, result, pc, cls, entity>>

(* ---------------- bounds of the checked input space ------------------- *)

\* Nesting depth of the generated JSON type expressions.
MaxDepth == 2

\* Longest values / options list of a generated tuple or union.
MaxLen == 2

(* ---------------- JavaScript values ----------------------------------- *)

Undefined == [t |-> "undefined"]

Null == [t |-> "null"]

Thrown == [t |-> "TypeError"]

Str(s) == [t |-> "string", s |-> s]

Num(n) == [t |-> "number", n |-> n]

Bool(b) == [t |-> "boolean", b |-> b]

Arr(items) == [t |-> "array", items |-> items]

\* A parsed JSON object, with the fields the Type constructor reads; a field
\* the object does not carry is Undefined.
Obj(ct, k, v, vs, os, ff, d) ==
    [t |-> "object", complex_type |-> ct, key |-> k, value |-> v, values |-> vs,
     options |-> os, full_format |-> ff, description |-> d]

(* ---------------- string literals of the source ----------------------- *)

s_array == <<"a", "r", "r", "a", "y">>

s_dictionary == <<"d", "i", "c", "t", "i", "o", "n", "a", "r", "y">>

s_tuple == <<"t", "u", "p", "l", "e">>

s_union == <<"u", "n", "i", "o", "n">>

s_literal == <<"l", "i", "t", "e", "r", "a", "l">>

s_type == <<"t", "y", "p", "e">>

s_brackets == <<"[", "]">>

s_tableOpen == <<"t", "a", "b", "l", "e", "<">>

s_tupleOpen == <<"t", "u", "p", "l", "e", "<">>

s_close == <<">">>

s_comma == <<",", " ">>

s_bar == <<" ", "|", " ">>

s_space == <<" ">>

s_any == <<"a", "n", "y">>

\* The text  string """  that opens a rendered string literal.
s_stringOpen == <<"s", "t", "r", "i", "n", "g", " ", "\"", "\"", "\"">>

s_quote == <<"\"">>

s_string == <<"s", "t", "r", "i", "n", "g">>

s_number == <<"n", "u", "m", "b", "e", "r">>

s_boolean == <<"b", "o", "o", "l", "e", "a", "n">>

s_object == <<"o", "b", "j", "e", "c", "t">>

s_undefined == <<"u", "n", "d", "e", "f", "i", "n", "e", "d">>

s_null == <<"n", "u", "l", "l">>

s_true == <<"t", "r", "u", "e">>

s_false == <<"f", "a", "l", "s", "e">>

(* ---------------- JavaScript primitives used by the class ------------- *)

\* typeof v
TypeOf(v) ==
    CASE v.t = "string" -> s_string
      [] v.t = "number" -> s_number
      [] v.t = "boolean" -> s_boolean
      [] v.t = "undefined" -> s_undefined
      [] OTHER -> s_object

\* The condition of  v ? a : b,  v || d  and  if (v).
Truthy(v) ==
    CASE v.t = "string" -> v.s # <<>>
      [] v.t = "number" -> v.n # 0
      [] v.t = "boolean" -> v.b
      [] v.t = "undefined" -> FALSE
      [] v.t = "null" -> FALSE
      [] OTHER -> TRUE

\* v || null
OrNull(v) == IF Truthy(v) THEN v ELSE Null

\* json.f : a property read; anything but an object that carries f gives
\* undefined.
Get(j, f) == IF j.t = "object" /\ f \in DOMAIN j THEN j[f] ELSE Undefined

\* typeof v === 'object' && v !== null
IsNonNullObject(v) == v.t \in {"object", "array", "Type"}

Digits == <<"0", "1", "2", "3", "4", "5", "6", "7", "8", "9">>

RECURSIVE NumStr(_)
\* The decimal text of a non-negative integer.
NumStr(n) ==
    IF n < 10 THEN <<Digits[n + 1]>>
    ELSE NumStr(n \div 10) \o <<Digits[(n % 10) + 1]>>

\* The text of a primitive when it is concatenated to a string, put in a
\* template literal or asked for its toString().
PrimText(v) ==
    CASE v.t = "string" -> v.s
      [] v.t = "number" -> NumStr(v.n)
      [] v.t = "boolean" -> (IF v.b THEN s_true ELSE s_false)
      [] v.t = "null" -> s_null
      [] OTHER -> s_undefined

RECURSIVE JoinStr(_, _)
\* Array.prototype.join over texts.
JoinStr(parts, sep) ==
    IF parts = <<>> THEN <<>>
    ELSE IF Len(parts) = 1 THEN parts[1]
    ELSE parts[1] \o sep \o JoinStr(Tail(parts), sep)

(* ---------------- class Type: constructor ----------------------------- *)

\* The field initialisers of class Type, every field null, with
\* complex_type then set to ct.
BareType(ct) ==
    [t |-> "Type", complex_type |-> ct, key |-> Null, value |-> Null,
     values |-> Null, options |-> Null, full_format |-> Null,
     description |-> Null]

RECURSIVE NewType(_)

\* this.key = json.key ? new Type(json.key) : null
NewKey(j) == IF Truthy(Get(j, "key")) THEN NewType(Get(j, "key")) ELSE Null

\* The value field: an object is parsed as a nested Type, anything else
\* that is not undefined is stored as it is, undefined becomes null.
NewValue(j) ==
    LET v == Get(j, "value") IN
    IF v # Undefined
    THEN IF IsNonNullObject(v) THEN NewType(v) ELSE v
    ELSE Null

\* One member of values or options: an object is parsed as a nested Type,
\* anything else is pushed as it is.
NewItem(item) == IF IsNonNullObject(item) THEN NewType(item) ELSE item

\* The values and the options field: a list built member by member when the
\* JSON field is an array, null otherwise.
NewList(field) ==
    IF field.t = "array"
    THEN Arr([i \in 1..Len(field.items) |-> NewItem(field.items[i])])
    ELSE Null

\* new Type(json). Reading a property of null or undefined throws.
NewType(j) ==
    IF j.t = "string" THEN BareType(j)
    ELSE IF j.t \in {"null", "undefined"} THEN Thrown
    ELSE [t |-> "Type",
          complex_type |-> Get(j, "complex_type"),
          key |-> NewKey(j),
          value |-> NewValue(j),
          values |-> NewList(Get(j, "values")),
          options |-> NewList(Get(j, "options")),
          full_format |-> OrNull(Get(j, "full_format")),
          description |-> OrNull(Get(j, "description"))]

(* ---------------- class Type: toString -------------------------------- *)

RECURSIVE TypeToString(_)

\* this.complex_type == "..." for a complex_type that is a string, null or
\* undefined.
IsKind(self, kind) ==
    self.complex_type.t = "string" /\ self.complex_type.s = kind

\* The primitive an operand of + is converted to: a Type's own toString()
\* result, a primitive itself.
ToPrimitive(v) == IF v.t = "Type" THEN TypeToString(v) ELSE v

\* v.toString() as the map callbacks and the alias branch call it: a Type's
\* own toString(), the text of a string, number or boolean, and a TypeError
\* for null.
CallToString(v) ==
    CASE v.t = "Type" -> TypeToString(v)
      [] v.t \in {"null", "undefined"} -> Thrown
      [] OTHER -> Str(PrimText(v))

\* The text join() gives one element: nothing for undefined and null.
JoinText(r) == IF r.t \in {"null", "undefined"} THEN <<>> ELSE PrimText(r)

\* list.map(v => v.toString()).join(sep): a TypeError when the list is null
\* or a callback throws.
MapJoin(list, sep) ==
    IF list.t # "array" THEN Thrown
    ELSE LET rs == [i \in 1..Len(list.items) |-> CallToString(list.items[i])] IN
         IF \E i \in 1..Len(rs) : rs[i] = Thrown THEN Thrown
         ELSE Str(JoinStr([i \in 1..Len(rs) |-> JoinText(rs[i])], sep))

\* ToStringArray with the brackets put before the element.
ToStringArrayBracketsFirst(self) ==
    LET v == ToPrimitive(self.value) IN
    IF v = Thrown THEN Thrown ELSE Str(s_brackets \o PrimText(v))

\* return this.value + "[]"
ToStringArray(self) ==
    LET v == ToPrimitive(self.value) IN
    IF v = Thrown THEN Thrown ELSE Str(PrimText(v) \o s_brackets)

\* return "table<" + this.key + ", " + this.value + ">"
ToStringDictionary(self) ==
    LET k == ToPrimitive(self.key)
        v == ToPrimitive(self.value) IN
    IF k = Thrown \/ v = Thrown THEN Thrown
    ELSE Str(s_tableOpen \o PrimText(k) \o s_comma \o PrimText(v) \o s_close)

\* ToStringTuple with the members joined by a comma without the space.
ToStringTupleTightComma(self) ==
    LET m == MapJoin(self.values, <<",">>) IN
    IF m = Thrown THEN Thrown ELSE Str(s_tupleOpen \o m.s \o s_close)

\* return "tuple<" + this.values.map(v => v.toString()).join(", ") + ">"
ToStringTuple(self) ==
    LET m == MapJoin(self.values, s_comma) IN
    IF m = Thrown THEN Thrown ELSE Str(s_tupleOpen \o m.s \o s_close)

\* ToStringUnion with the alternatives wrapped in parentheses.
ToStringUnionParenthesised(self) ==
    LET m == MapJoin(self.options, s_bar) IN
    IF m = Thrown THEN Thrown ELSE Str(<<"(">> \o m.s \o <<")">>)

\* return this.options.map(o => o.toString()).join(" | ")
ToStringUnion(self) == MapJoin(self.options, s_bar)

\* ToStringLiteral with a string literal opened by a single double quote.
ToStringLiteralOneQuote(self) ==
    IF TypeOf(self.value) = s_string
    THEN IF Truthy(self.description)
         THEN Str(s_string \o s_space \o s_quote
                  \o PrimText(self.description) \o s_quote)
         ELSE Str(s_string \o s_space \o s_quote
                  \o PrimText(self.value) \o s_quote)
    ELSE IF TypeOf(self.value) = s_number \/ TypeOf(self.value) = s_boolean
    THEN IF Truthy(self.description)
         THEN Str(TypeOf(self.value) \o s_space \o PrimText(self.description))
         ELSE Str(TypeOf(self.value))
    ELSE Str(s_any)

\* ToStringLiteral that tests the value for truth where the code tests its
\* type, so that 0 and false fall through to any.
ToStringLiteralTruthyValue(self) ==
    IF TypeOf(self.value) = s_string
    THEN IF Truthy(self.description)
         THEN Str(s_stringOpen \o PrimText(self.description) \o s_quote)
         ELSE Str(s_stringOpen \o PrimText(self.value) \o s_quote)
    ELSE IF Truthy(self.value)
            /\ (TypeOf(self.value) = s_number \/ TypeOf(self.value) = s_boolean)
    THEN IF Truthy(self.description)
         THEN Str(TypeOf(self.value) \o s_space \o PrimText(self.description))
         ELSE Str(TypeOf(self.value))
    ELSE Str(s_any)

\* The literal branch.
ToStringLiteral(self) ==
    IF TypeOf(self.value) = s_string
    THEN IF Truthy(self.description)
         THEN Str(s_stringOpen \o PrimText(self.description) \o s_quote)
         ELSE Str(s_stringOpen \o PrimText(self.value) \o s_quote)
    ELSE IF TypeOf(self.value) = s_number \/ TypeOf(self.value) = s_boolean
    THEN IF Truthy(self.description)
         THEN Str(TypeOf(self.value) \o s_space \o PrimText(self.description))
         ELSE Str(TypeOf(self.value))
    ELSE Str(s_any)

\* ToStringAlias that renders the alias by its own complex_type.
ToStringAliasOwnName(self) == self.complex_type

\* return this.value.toString()
ToStringAlias(self) == CallToString(self.value)

\* ToStringName that renders an unknown kind as any.
ToStringNameAny(self) == Str(s_any)

\* return this.complex_type
ToStringName(self) == self.complex_type

\* Type.prototype.toString
TypeToString(self) ==
    IF IsKind(self, s_array) THEN ToStringArray(self)
    ELSE IF IsKind(self, s_dictionary) THEN ToStringDictionary(self)
    ELSE IF IsKind(self, s_tuple) THEN ToStringTuple(self)
    ELSE IF IsKind(self, s_union) THEN ToStringUnion(self)
    ELSE IF IsKind(self, s_literal) THEN ToStringLiteral(self)
    ELSE IF IsKind(self, s_type) THEN ToStringAlias(self)
    ELSE ToStringName(self)

(* ---------------- the documentation entities: constructors ------------ *)

s_empty == <<>>

\* v || ''
OrEmpty(v) == IF Truthy(v) THEN v ELSE Str(s_empty)

\* v || false
OrFalse(v) == IF Truthy(v) THEN v ELSE Bool(FALSE)

\* json.type ? new Type(json.type) : null, for any field that holds a type.
NewTypeField(v) == IF Truthy(v) THEN NewType(v) ELSE Null

\* An instance whose constructor threw while it filled a field is no
\* instance: the TypeError leaves the constructor.
Checked(self) ==
    IF \E f \in DOMAIN self \ {"t"} : self[f] = Thrown THEN Thrown ELSE self

\* The loop that fills a list field: one instance per member when the JSON
\* field is an array, null otherwise.
Built(items) ==
    IF \E i \in 1..Len(items) : items[i] = Thrown THEN Thrown ELSE Arr(items)

\* new Image(json)
NewImage(j) ==
    IF j.t \in {"null", "undefined"} THEN Thrown
    ELSE [t |-> "Image", filename |-> Get(j, "filename"),
          caption |-> OrNull(Get(j, "caption"))]

\* The images field of BasicMember.
NewImages(field) ==
    IF field.t = "array"
    THEN Built([i \in 1..Len(field.items) |-> NewImage(field.items[i])])
    ELSE Null

\* The fields the BasicMember constructor sets.
BasicMember(j) ==
    [name |-> Get(j, "name"),
     order |-> Get(j, "order"),
     description |-> OrEmpty(Get(j, "description")),
     lists |-> OrNull(Get(j, "lists")),
     examples |-> OrNull(Get(j, "examples")),
     images |-> NewImages(Get(j, "images"))]

\* new DefineValue(json)
NewDefineValue(j) ==
    IF j.t \in {"null", "undefined"} THEN Thrown
    ELSE [t |-> "DefineValue", name |-> Get(j, "name"),
          order |-> Get(j, "order"), description |-> Get(j, "description")]

\* new Property(json)
NewProperty(j) ==
    IF j.t \in {"null", "undefined"} THEN Thrown
    ELSE Checked([t |-> "Property",
                  visibility |-> OrNull(Get(j, "visibility")),
                  alt_name |-> OrNull(Get(j, "alt_name")),
                  override |-> OrFalse(Get(j, "override")),
                  type |-> NewTypeField(Get(j, "type")),
                  optional |-> OrFalse(Get(j, "optional")),
                  default |-> OrNull(Get(j, "default"))] @@ BasicMember(j))

\* The properties field of Concept and Prototype when the JSON field is an
\* array.
NewProperties(field) ==
    Built([i \in 1..Len(field.items) |-> NewProperty(field.items[i])])

\* new Concept(json)
NewConcept(j) ==
    IF j.t \in {"null", "undefined"} THEN Thrown
    ELSE Checked([t |-> "Concept",
                  parent |-> OrNull(Get(j, "parent")),
                  abstract |-> OrFalse(Get(j, "abstract")),
                  inline |-> OrFalse(Get(j, "inline")),
                  type |-> NewTypeField(Get(j, "type")),
                  properties |->
                      IF Get(j, "properties").t = "array"
                      THEN NewProperties(Get(j, "properties")) ELSE Null]
                 @@ BasicMember(j))

RECURSIVE NewDefine(_)
\* new Define(json)
NewDefine(j) ==
    IF j.t \in {"null", "undefined"} THEN Thrown
    ELSE LET vs == Get(j, "values")
             ks == Get(j, "subkeys") IN
         Checked([t |-> "Define",
                  values |->
                      IF vs.t = "array"
                      THEN Built([i \in 1..Len(vs.items) |->
                                     NewDefineValue(vs.items[i])])
                      ELSE Null,
                  subkeys |->
                      IF ks.t = "array"
                      THEN Built([i \in 1..Len(ks.items) |->
                                     NewDefine(ks.items[i])])
                      ELSE Null] @@ BasicMember(j))

\* new Prototype(json). properties is assigned only when the JSON field is
\* an array and keeps its initial null otherwise; default is set although
\* the class declares no such field.
NewPrototype(j) ==
    IF j.t \in {"null", "undefined"} THEN Thrown
    ELSE Checked([t |-> "Prototype",
                  visibility |-> OrNull(Get(j, "visibility")),
                  parent |-> OrNull(Get(j, "parent")),
                  abstract |-> OrFalse(Get(j, "abstract")),
                  typename |-> OrNull(Get(j, "typename")),
                  instance_limit |-> OrNull(Get(j, "instance_limit")),
                  deprecated |-> OrFalse(Get(j, "deprecated")),
                  custom_properties |-> OrNull(Get(j, "custom_properties")),
                  default |-> OrNull(Get(j, "default")),
                  properties |->
                      IF Get(j, "properties").t = "array"
                      THEN NewProperties(Get(j, "properties")) ELSE Null]
                 @@ BasicMember(j))

\* new Parameter(json)
NewParameter(j) ==
    IF j.t \in {"null", "undefined"} THEN Thrown
    ELSE [t |-> "Parameter", name |-> Get(j, "name"),
          order |-> Get(j, "order"), description |-> Get(j, "description"),
          type |-> NewTypeField(Get(j, "type")),
          optional |-> OrFalse(Get(j, "optional"))]

\* A list of Parameter: parameters and return_values of Method, parameters
\* of ParameterGroup.
NewParameters(field) ==
    IF field.t = "array"
    THEN Built([i \in 1..Len(field.items) |-> NewParameter(field.items[i])])
    ELSE Null

\* new ParameterGroup(json)
NewParameterGroup(j) ==
    IF j.t \in {"null", "undefined"} THEN Thrown
    ELSE Checked([t |-> "ParameterGroup", name |-> Get(j, "name"),
                  order |-> Get(j, "order"),
                  description |-> Get(j, "description"),
                  parameters |-> NewParameters(Get(j, "parameters"))])

\* new VariadicParameter(json)
NewVariadicParameter(j) ==
    [t |-> "VariadicParameter", type |-> NewTypeField(Get(j, "type")),
     description |-> Get(j, "description")]

\* new MethodFormat(json)
NewMethodFormat(j) ==
    [t |-> "MethodFormat", takes_table |-> OrFalse(Get(j, "takes_table")),
     takes_optional |-> OrNull(Get(j, "takes_optional"))]

\* new EventRaised(json)
NewEventRaised(j) ==
    IF j.t \in {"null", "undefined"} THEN Thrown
    ELSE [t |-> "EventRaised", name |-> Get(j, "name"),
          order |-> Get(j, "order"), description |-> Get(j, "description"),
          timeframe |-> Get(j, "timeframe"), optional |-> Get(j, "optional")]

\* The raises field of Attribute and Method.
NewRaises(field) ==
    IF field.t = "array"
    THEN Built([i \in 1..Len(field.items) |-> NewEventRaised(field.items[i])])
    ELSE Null

\* new Attribute(json)
NewAttribute(j) ==
    IF j.t \in {"null", "undefined"} THEN Thrown
    ELSE Checked([t |-> "Attribute",
                  visibility |-> OrNull(Get(j, "visibility")),
                  raises |-> NewRaises(Get(j, "raises")),
                  subclasses |-> OrNull(Get(j, "subclasses")),
                  read_type |-> NewTypeField(Get(j, "read_type")),
                  write_type |-> NewTypeField(Get(j, "write_type")),
                  optional |-> OrFalse(Get(j, "optional"))] @@ BasicMember(j))

\* new Method(json)
NewMethod(j) ==
    IF j.t \in {"null", "undefined"} THEN Thrown
    ELSE LET gs == Get(j, "variant_parameter_groups") IN
         Checked([t |-> "Method",
                  visibility |-> OrNull(Get(j, "visibility")),
                  raises |-> NewRaises(Get(j, "raises")),
                  subclasses |-> OrNull(Get(j, "subclasses")),
                  parameters |-> NewParameters(Get(j, "parameters")),
                  variant_parameter_groups |->
                      IF gs.t = "array"
                      THEN Built([i \in 1..Len(gs.items) |->
                                     NewParameterGroup(gs.items[i])])
                      ELSE Null,
                  variant_parameter_description |->
                      OrNull(Get(j, "variant_parameter_description")),
                  variadic_parameter |->
                      IF Truthy(Get(j, "variadic_parameter"))
                      THEN NewVariadicParameter(Get(j, "variadic_parameter"))
                      ELSE Null,
                  format |->
                      IF Truthy(Get(j, "format"))
                      THEN NewMethodFormat(Get(j, "format")) ELSE Null,
                  return_values |-> NewParameters(Get(j, "return_values"))]
                 @@ BasicMember(j))

s_call == <<"c", "a", "l", "l">>

s_index == <<"i", "n", "d", "e", "x">>

s_length == <<"l", "e", "n", "g", "t", "h">>

\* The operator names the Class constructor keeps.
OperatorNames == {Str(s_call), Str(s_index), Str(s_length)}

\* NewOperator that makes an Attribute of every kept entry.
NewOperatorAttribute(j) ==
    IF j.t \in {"null", "undefined"} THEN Thrown
    ELSE IF Get(j, "name") \in OperatorNames THEN NewAttribute(j)
    ELSE Null

\* One turn of the operators loop: a Method when the entry has parameters
\* or return_values, an Attribute otherwise, and null for any other name.
NewOperator(j) ==
    IF j.t \in {"null", "undefined"} THEN Thrown
    ELSE IF Get(j, "name") \in OperatorNames
    THEN IF Truthy(Get(j, "parameters")) \/ Truthy(Get(j, "return_values"))
         THEN NewMethod(j)
         ELSE NewAttribute(j)
    ELSE Null

\* The members of a list that are not null, in order.
SelectNotNull(items) == SelectSeq(items, LAMBDA o : o # Null)

\* The operators field of Class: the loop pushes every operator that is not
\* null.
NewOperators(field) ==
    IF field.t = "array"
    THEN LET os == [i \in 1..Len(field.items) |-> NewOperator(field.items[i])] IN
         IF \E i \in 1..Len(os) : os[i] = Thrown THEN Thrown
         ELSE Arr(SelectNotNull(os))
    ELSE Null

\* new Class(json)
NewClass(j) ==
    IF j.t \in {"null", "undefined"} THEN Thrown
    ELSE LET ms == Get(j, "methods")
             as == Get(j, "attributes") IN
         Checked([t |-> "Class",
                  visibility |-> OrNull(Get(j, "visibility")),
                  parent |-> OrNull(Get(j, "parent")),
                  abstract |-> OrFalse(Get(j, "abstract")),
                  methods |->
                      IF ms.t = "array"
                      THEN Built([i \in 1..Len(ms.items) |-> NewMethod(ms.items[i])])
                      ELSE Null,
                  attributes |->
                      IF as.t = "array"
                      THEN Built([i \in 1..Len(as.items) |->
                                     NewAttribute(as.items[i])])
                      ELSE Null,
                  operators |-> NewOperators(Get(j, "operators"))]
                 @@ BasicMember(j))

(* ---------------- the documentation entities: declarations ------------ *)

s_fieldTag == <<"-", "-", "-", "@", "f", "i", "e", "l", "d", " ">>

s_classTag == <<"-", "-", "-", "@", "c", "l", "a", "s", "s", " ">>

s_newline == "\n"

s_defines == <<"d", "e", "f", "i", "n", "e", "s", ".">>

s_funOpen == <<" ", "f", "u", "n", "(">>

s_funClose == <<")", " ">>

s_colon == <<":">>

RECURSIVE UpToNewline(_)
\* The characters of a text before its first newline.
UpToNewline(text) ==
    IF text = <<>> \/ Head(text) = s_newline THEN <<>>
    ELSE <<Head(text)>> \o UpToNewline(Tail(text))

\* FirstLine that keeps the whole description.
FirstLineWhole(description) ==
    IF description.t = "string" THEN description ELSE Thrown

\* this.description.split('\n')[0]; a description that is no string has no
\* split method.
FirstLine(description) ==
    IF description.t = "string" THEN Str(UpToNewline(description.s))
    ELSE Thrown

\* text starts with pattern.
StartsWith(text, pattern) ==
    /\ Len(text) >= Len(pattern)
    /\ SubSeq(text, 1, Len(pattern)) = pattern

RECURSIVE RemoveAll(_, _)
\* text.replaceAll(pattern, ""), pattern not empty: every occurrence found
\* scanning from the left is dropped.
RemoveAll(text, pattern) ==
    IF text = <<>> THEN <<>>
    ELSE IF StartsWith(text, pattern)
    THEN RemoveAll(SubSeq(text, Len(pattern) + 1, Len(text)), pattern)
    ELSE <<Head(text)>> \o RemoveAll(Tail(text), pattern)

\* "---@class " + this.name : toClass() of Concept, Prototype and Class,
\* toString() of Define.
ToClass(self) == Str(s_classTag \o PrimText(self.name))

\* DefineValue.toField
DefineValueToField(self) ==
    LET firstLineDesc == FirstLine(self.description) IN
    IF firstLineDesc = Thrown THEN Thrown
    ELSE Str(s_fieldTag \o PrimText(self.name) \o s_space \o s_quote
             \o PrimText(self.name) \o s_quote \o firstLineDesc.s)

\* PropertyToField with  defines.  removed from the type, as Method.toField
\* does for its parameters.
PropertyToFieldStripped(self) ==
    LET firstLineDesc == FirstLine(self.description)
        typeStr == ToPrimitive(self.type) IN
    IF firstLineDesc = Thrown \/ typeStr = Thrown THEN Thrown
    ELSE Str(s_fieldTag \o PrimText(self.name) \o s_space
             \o RemoveAll(PrimText(typeStr), s_defines)
             \o s_space \o firstLineDesc.s)

\* Property.toField
PropertyToField(self) ==
    LET firstLineDesc == FirstLine(self.description)
        typeStr == ToPrimitive(self.type) IN
    IF firstLineDesc = Thrown \/ typeStr = Thrown THEN Thrown
    ELSE Str(s_fieldTag \o PrimText(self.name) \o s_space \o PrimText(typeStr)
             \o s_space \o firstLineDesc.s)

\* AttributeTypeStr that looks at read_type only: a write-only attribute
\* gets the token any.
AttributeTypeStrReadOnly(self) ==
    IF self.read_type # Null /\ self.write_type # Null
    THEN LET r == CallToString(self.read_type)
             w == CallToString(self.write_type) IN
         IF r = Thrown \/ w = Thrown THEN Thrown
         ELSE Str(PrimText(r) \o s_bar \o PrimText(w))
    ELSE IF self.read_type # Null THEN CallToString(self.read_type)
    ELSE Str(s_any)

\* The type segment of Attribute.toField.
AttributeTypeStr(self) ==
    IF self.read_type # Null /\ self.write_type # Null
    THEN LET r == CallToString(self.read_type)
             w == CallToString(self.write_type) IN
         IF r = Thrown \/ w = Thrown THEN Thrown
         ELSE Str(PrimText(r) \o s_bar \o PrimText(w))
    ELSE IF self.read_type # Null THEN CallToString(self.read_type)
    ELSE IF self.write_type # Null THEN CallToString(self.write_type)
    ELSE Str(s_any)

\* Attribute.toField
AttributeToField(self) ==
    LET firstLineDesc == FirstLine(self.description)
        typeStr == AttributeTypeStr(self) IN
    IF firstLineDesc = Thrown \/ typeStr = Thrown THEN Thrown
    ELSE Str(s_fieldTag \o PrimText(self.name) \o s_space \o PrimText(typeStr)
             \o s_space \o firstLineDesc.s)

\* parameter.type.toString().replaceAll("defines.", ""): a TypeError when
\* the parameter has no type or its rendering is no string.
ParameterTypeStr(parameter) ==
    LET rendered == CallToString(parameter.type) IN
    IF rendered.t = "string" THEN Str(RemoveAll(rendered.s, s_defines))
    ELSE Thrown

\* ParameterStr that appends the separator after the last parameter too.
ParameterStrTrailing(parameters, i) ==
    LET typeStr == ParameterTypeStr(parameters[i]) IN
    IF typeStr = Thrown THEN Thrown
    ELSE Str(PrimText(parameters[i].name) \o s_colon \o typeStr.s
             \o s_comma)

\* What one turn of the loop of Method.toField appends to params.
ParameterStr(parameters, i) ==
    LET typeStr == ParameterTypeStr(parameters[i]) IN
    IF typeStr = Thrown THEN Thrown
    ELSE Str(PrimText(parameters[i].name) \o s_colon \o typeStr.s
             \o (IF i < Len(parameters) THEN s_comma ELSE <<>>))

RECURSIVE ParamsFrom(_, _)
\* The loop of Method.toField from turn i on.
ParamsFrom(parameters, i) ==
    IF i > Len(parameters) THEN Str(<<>>)
    ELSE LET first == ParameterStr(parameters, i)
             rest == ParamsFrom(parameters, i + 1) IN
         IF first = Thrown \/ rest = Thrown THEN Thrown
         ELSE Str(first.s \o rest.s)

\* Method.toField
MethodToField(self) ==
    LET firstLineDesc == FirstLine(self.description)
        params == IF self.parameters # Null
                  THEN ParamsFrom(self.parameters.items, 1)
                  ELSE Str(<<>>) IN
    IF firstLineDesc = Thrown \/ params = Thrown THEN Thrown
    ELSE Str(s_fieldTag \o PrimText(self.name) \o s_funOpen \o params.s
             \o s_funClose \o firstLineDesc.s)

\* The declaration method of each class that has one.
Declares == {"Concept", "Define", "Prototype", "Class", "DefineValue",
             "Property", "Attribute", "Method"}

\* The declaration string of an entity: toClass(), toString() or toField().
Declaration(self) ==
    CASE self.t = "DefineValue" -> DefineValueToField(self)
      [] self.t = "Property" -> PropertyToField(self)
      [] self.t = "Attribute" -> AttributeToField(self)
      [] self.t = "Method" -> MethodToField(self)
      [] OTHER -> ToClass(self)

\* new C(json) for the class named cls.
New(c, j) ==
    CASE c = "Type" -> NewType(j)
      [] c = "Image" -> NewImage(j)
      [] c = "Concept" -> NewConcept(j)
      [] c = "DefineValue" -> NewDefineValue(j)
      [] c = "Define" -> NewDefine(j)
      [] c = "Property" -> NewProperty(j)
      [] c = "Prototype" -> NewPrototype(j)
      [] c = "Parameter" -> NewParameter(j)
      [] c = "ParameterGroup" -> NewParameterGroup(j)
      [] c = "VariadicParameter" -> NewVariadicParameter(j)
      [] c = "MethodFormat" -> NewMethodFormat(j)
      [] c = "EventRaised" -> NewEventRaised(j)
      [] c = "Attribute" -> NewAttribute(j)
      [] c = "Method" -> NewMethod(j)
      [] OTHER -> NewClass(j)

(* ---------------- the JSON inputs the model draws from ----------------- *)

s_int == <<"i", "n", "t">>

s_foo == <<"f", "o", "o">>

s_tick == <<"t", "i", "c", "k", " ", "c", "o", "u", "n", "t">>

\* The six complex_type names Type.toString() dispatches on.
Discriminators ==
    {s_array, s_dictionary, s_tuple, s_union, s_literal, s_type}

\* Bare strings given to new Type() at the top level.
BareNames == Discriminators \cup {<<>>, s_int, s_foo}

\* Primitives in the key and value position of a JSON type object.
ChildPrims ==
    {Str(<<>>), Str(s_int), Str(s_array), Num(5), Bool(FALSE), Null}

\* Primitives as members of values and options.
ListPrims == {Str(s_int), Str(s_array), Num(5), Null}

\* The value of a literal.
LiteralValues ==
    {Str(s_foo), Str(<<>>), Num(0), Num(5), Bool(FALSE), Bool(TRUE), Null,
     Undefined}

\* The description of a literal.
Descriptions == {Undefined, Str(<<>>), Str(s_tick)}

\* A JSON type object of kind ct with the given payload and nothing else.
Node(ct, k, v, vs, os) == Obj(Str(ct), k, v, vs, os, Undefined, Undefined)

\* The lists of 1..MaxLen members drawn from S.
ListsOf(S) == UNION {[1..n -> S] : n \in 1..MaxLen}

\* Type objects whose payload is made of primitives only.
Flat ==
    {Node(s_array, Undefined, v, Undefined, Undefined) :
        v \in ChildPrims \cup {Undefined}}
    \cup {Node(s_dictionary, k, v, Undefined, Undefined) :
        k \in ChildPrims \cup {Undefined}, v \in ChildPrims \cup {Undefined}}
    \cup {Node(s_tuple, Undefined, Undefined, Arr(l), Undefined) :
        l \in ListsOf(ListPrims) \cup {<<>>}}
    \cup {Node(s_union, Undefined, Undefined, Undefined, Arr(l)) :
        l \in ListsOf(ListPrims) \cup {<<>>}}
    \cup {Node(s_type, Undefined, v, Undefined, Undefined) :
        v \in ChildPrims \cup {Undefined}}
    \cup {Obj(Str(s_literal), Undefined, v, Undefined, Undefined, Undefined, d) :
        v \in LiteralValues, d \in Descriptions}
    \cup {Node(s_tuple, Undefined, Undefined, Undefined, Undefined),
          Node(s_union, Undefined, Undefined, Undefined, Undefined),
          Node(s_int, Undefined, Undefined, Undefined, Undefined),
          Obj(Undefined, Undefined, Str(s_int), Undefined, Undefined,
              Undefined, Undefined)}

\* The list of n members that holds c at place i and the bare name int
\* everywhere else.
ListAround(c, n, i) == [j \in 1..n |-> IF j = i THEN c ELSE Str(s_int)]

\* The ways to nest one type object in another: the kind of the outer
\* object, the length of its list and the place of the nested object.
Shapes ==
    {<<k, 1, 1>> : k \in {"array", "key", "value", "type", "literal", "unknown"}}
    \cup {<<k, n, i>> : k \in {"tuple", "union"},
                        n \in 1..MaxLen, i \in 1..MaxLen}

\* The type object of shape sh that nests the type object c.
Around(sh, c) ==
    LET l == Arr(ListAround(c, sh[2], sh[3])) IN
    CASE sh[1] = "array" -> Node(s_array, Undefined, c, Undefined, Undefined)
      [] sh[1] = "key" -> Node(s_dictionary, c, Str(s_int), Undefined, Undefined)
      [] sh[1] = "value" -> Node(s_dictionary, Str(s_int), c, Undefined, Undefined)
      [] sh[1] = "type" -> Node(s_type, Undefined, c, Undefined, Undefined)
      [] sh[1] = "literal" -> Node(s_literal, Undefined, c, Undefined, Undefined)
      [] sh[1] = "unknown" -> Node(s_foo, c, c, Arr(<<c>>), Arr(<<c>>))
      [] sh[1] = "tuple" -> Node(s_tuple, Undefined, Undefined, l, Undefined)
      [] OTHER -> Node(s_union, Undefined, Undefined, Undefined, l)

RECURSIVE Trees(_)
\* The JSON type objects nested at most d deep.
Trees(d) ==
    IF d <= 1 THEN Flat
    ELSE LET S == Trees(d - 1) IN
         S \cup {Around(sh, c) : sh \in {x \in Shapes : x[3] <= x[2]}, c \in S}

\* Type objects of an unknown kind that carry every payload field, in right
\* and wrong shapes.
Unknown ==
    {Obj(Str(ct), k, v, vs, os, Undefined, d) :
        ct \in {<<>>, s_foo},
        k \in {Undefined, Num(5), Str(s_array)},
        v \in {Undefined, Null, Str(s_int)},
        vs \in {Undefined, Str(s_int), Arr(<<Null>>)},
        os \in {Undefined, Arr(<<>>)},
        d \in {Undefined, Str(s_tick)}}

\* Everything new Type() is called with.
Inputs == {Str(n) : n \in BareNames} \cup Trees(MaxDepth) \cup Unknown

(* ---------------- the JSON inputs of the entity constructors ---------- *)

s_a == <<"a">>

s_b == <<"b">>

s_twoLines == <<"u", "p", "\n", "d", "n">>

s_blankFirst == <<"\n", "z">>

s_definesDir == <<"d", "e", "f", "i", "n", "e", "s", ".", "d", "i", "r">>

s_xdefines == <<"x", "d", "e", "f", "i", "n", "e", "s", ".", "y">>

s_ofDefines == <<"o", "f", " ", "d", "e", "f", "i", "n", "e", "s", ".", "k">>

\* The descriptions of the generated entities.
DescTexts == {Str(<<>>), Str(s_tick), Str(s_twoLines), Str(s_blankFirst)}

\* A string literal with the given description.
LiteralJson(d) ==
    Obj(Str(s_literal), Undefined, Str(s_foo), Undefined, Undefined,
        Undefined, Str(d))

\* The union  int | defines.dir .
UnionJson ==
    Node(s_union, Undefined, Undefined, Undefined,
         Arr(<<Str(s_int), Str(s_definesDir)>>))

\* The dictionary  table<defines.dir, defines.dir> .
DictionaryJson ==
    Node(s_dictionary, Str(s_definesDir), Str(s_definesDir), Undefined,
         Undefined)

\* The JSON types given to Property.
FieldTypes ==
    {Str(s_int), Str(s_definesDir), Str(s_xdefines), Str(s_tuple),
     LiteralJson(s_ofDefines), LiteralJson(s_twoLines), UnionJson,
     DictionaryJson}

\* The JSON types given to Attribute as read_type and write_type.
AttributeTypes ==
    {Undefined, Str(s_int), Str(s_definesDir), UnionJson,
     LiteralJson(s_twoLines)}

\* A JSON object with the fields every named entity carries.
Named(n, d) ==
    [t |-> "object", name |-> Str(n), order |-> Num(1), description |-> d]

\* A JSON Parameter.
ParameterJson(n, ty) == [type |-> ty] @@ Named(n, Str(s_tick))

\* The JSON parameters of the generated methods; one has no type.
ParameterJsons ==
    {ParameterJson(s_a, ty) :
        ty \in {Str(s_int), Str(s_definesDir), Str(s_xdefines),
                LiteralJson(s_ofDefines), DictionaryJson, Undefined}}
    \cup {ParameterJson(s_b, Str(s_int))}

\* The JSON operator entries of the generated classes: four names, each as
\* a bare entry, with an empty parameters list and with one return value.
OperatorJsons ==
    LET names == {s_call, s_index, s_length, s_foo} IN
    {Named(n, Str(s_tick)) : n \in names}
    \cup {[parameters |-> Arr(<<>>)] @@ Named(n, Str(s_tick)) : n \in names}
    \cup {[return_values |-> Arr(<<ParameterJson(s_a, Str(s_int))>>)]
          @@ Named(n, Str(s_tick)) : n \in names}

\* The classes of the module.
Classes ==
    {"Image", "Concept", "DefineValue", "Define", "Property", "Prototype",
     "Parameter", "ParameterGroup", "VariadicParameter", "MethodFormat",
     "EventRaised", "Attribute", "Method", "Class"}

\* The classes that extend BasicMember.
Members ==
    {"Concept", "Define", "Property", "Prototype", "Attribute", "Method",
     "Class"}

\* A JSON object of class c that carries the fields the constructor copies
\* without a default and none of the others.
Minimal(c) ==
    CASE c = "Image" -> [t |-> "object", filename |-> Str(s_foo)]
      [] c = "MethodFormat" -> [t |-> "object"]
      [] c = "VariadicParameter" ->
            [t |-> "object", description |-> Str(s_tick)]
      [] c = "EventRaised" ->
            [timeframe |-> Str(s_foo)] @@ Named(s_a, Str(s_tick))
      [] c \in {"DefineValue", "Parameter", "ParameterGroup"} ->
            Named(s_a, Str(s_tick))
      [] OTHER -> [t |-> "object", name |-> Str(s_a), order |-> Num(1)]

\* The fields of class c that hold a list.
ListFields(c) ==
    (IF c \in Members THEN {"lists", "examples", "images"} ELSE {})
    \cup (CASE c = "Concept" -> {"properties"}
            [] c = "Define" -> {"values", "subkeys"}
            [] c = "Property" -> {"visibility"}
            [] c = "Prototype" -> {"visibility", "properties"}
            [] c = "ParameterGroup" -> {"parameters"}
            [] c = "Attribute" -> {"visibility", "raises", "subclasses"}
            [] c = "Method" ->
                  {"visibility", "raises", "subclasses", "parameters",
                   "variant_parameter_groups", "return_values"}
            [] c = "Class" ->
                  {"visibility", "methods", "attributes", "operators"}
            [] OTHER -> {})

\* Values that are no array.
WrongShapes == {Str(s_foo), Num(0), [t |-> "object"]}

\* The minimal JSON object of class c with one list field of a wrong shape.
Misshapen(c) ==
    {(f :> w) @@ Minimal(c) : f \in ListFields(c), w \in WrongShapes}

\* The minimal JSON object of class c with every list field an empty array.
WithEmptyLists(c) ==
    [f \in ListFields(c) |-> Arr(<<>>)] @@ Minimal(c)

\* The JSON objects made for the declaration of class c.
Declared(c) ==
    CASE c = "DefineValue" ->
            {Named(n, d) : n \in {s_a, s_b}, d \in DescTexts \cup {Undefined}}
      [] c = "Property" ->
            {[type |-> ty] @@ Named(s_a, d) :
                ty \in FieldTypes \cup {Undefined},
                d \in DescTexts \cup {Undefined}}
      [] c = "Attribute" ->
            {[read_type |-> r, write_type |-> w] @@ Named(s_a, d) :
                r \in AttributeTypes, w \in AttributeTypes,
                d \in DescTexts \ {Str(<<>>)}}
      [] c = "Method" ->
            {[parameters |-> ps] @@ Named(s_a, d) :
                ps \in {Undefined, Arr(<<>>)}
                       \cup {Arr(l) : l \in ListsOf(ParameterJsons)},
                d \in {Str(s_tick), Str(s_twoLines)}}
      [] c = "Class" ->
            {[operators |-> Arr(l)] @@ Named(s_a, Str(s_twoLines)) :
                l \in ListsOf(OperatorJsons) \cup {<<>>}}
      [] c \in {"Concept", "Define", "Prototype"} ->
            {Named(n, d) : n \in {s_a, s_b}, d \in {Str(s_twoLines), Undefined}}
      [] OTHER -> {}

\* The classes whose instances carry a name.
NamedClasses == Classes \ {"Image", "VariadicParameter", "MethodFormat"}

\* The JSON objects of a named class c that carry no name.
Nameless(c) ==
    IF c \in NamedClasses
    THEN {[t |-> "object", order |-> Num(1), description |-> d] :
             d \in {Str(s_tick), Str(s_twoLines)}}
    ELSE {}

\* Values of an optional field, falsy and truthy ones.
FieldValues ==
    {Num(0), Num(5), Bool(FALSE), Bool(TRUE), Str(<<>>), Str(s_foo)}

\* The optional fields of class c that hold a plain value.
ValueFields(c) ==
    CASE c = "Property" -> {"default"}
      [] c = "Prototype" -> {"instance_limit"}
      [] c = "MethodFormat" -> {"takes_optional"}
      [] OTHER -> {}

\* The minimal JSON object of class c with one optional value field given.
Valued(c) ==
    {(f :> v) @@ Minimal(c) : f \in ValueFields(c), v \in FieldValues}

\* Everything new C() is called with, for the class c.
EntityInputs(c) ==
    {Minimal(c), WithEmptyLists(c)} \cup Misshapen(c) \cup Declared(c)
    \cup Nameless(c) \cup Valued(c)

(* ---------------- the state machine ----------------------------------- *)

\* result before toString() has been called.
NotCalled == [t |-> "none"]

Init ==
    /\ json \in Inputs
    /\ type = Null
    /\ result = NotCalled
    /\ pc = "start"
    /\ cls = "Type"
    /\ entity = Null

\* type = new Type(json)
Construct ==
    /\ pc = "start"
    /\ type' = NewType(json)
    /\ pc' = IF type' = Thrown THEN "failed" ELSE "built"
    /\ UNCHANGED <<json, result, cls, entity>>

\* result = type.toString()
Render ==
    /\ pc = "built"
    /\ result' = TypeToString(type)
    /\ pc' = "done"
    /\ UNCHANGED <<json, type, cls, entity>>

Next == Construct \/ Render

Spec == Init /\ [][Next]_vars

\* The caller holds the parsed JSON of one entity of class cls.
InitEntity ==
    /\ cls \in Classes
    /\ json \in EntityInputs(cls)
    /\ type = Null
    /\ result = NotCalled
    /\ pc = "start"
    /\ entity = Null

\* entity = new cls(json)
ConstructEntity ==
    /\ pc = "start"
    /\ entity' = New(cls, json)
    /\ pc' = IF entity' = Thrown THEN "failed" ELSE "built"
    /\ UNCHANGED <<json, type, result, cls>>

\* result = entity.toField(), entity.toClass() or entity.toString(), for
\* the classes that declare one of them.
Declare ==
    /\ pc = "built"
    /\ cls \in Declares
    /\ result' = Declaration(entity)
    /\ pc' = "done"
    /\ UNCHANGED <<json, type, cls, entity>>

NextEntity == ConstructEntity \/ Declare

SpecEntity == InitEntity /\ [][NextEntity]_vars

(* ---------------- what the claims speak of ----------------------------- *)

\* The input is a JSON object whose complex_type is the string kind.
InputIs(kind) == json.t = "object" /\ json.complex_type = Str(kind)

\* x is what the specification calls a bare primitive: a string, a number
\* or a boolean.
IsPrimitive(x) == x.t \in {"string", "number", "boolean"}

\* render(X) for a payload X of the input: the raw text of a bare
\* primitive, and toString() of the Type built from a JSON object.
RenderOf(x) ==
    IF IsPrimitive(x) THEN Str(PrimText(x))
    ELSE IF x.t = "object" THEN TypeToString(NewType(x))
    ELSE Thrown

\* X is a nested type or a bare primitive, and render(X) is a text.
Renders(x) == (IsPrimitive(x) \/ x.t = "object") /\ RenderOf(x).t = "string"

\* The renderings of the members of a list, in order.
RenderAll(items) == [i \in 1..Len(items) |-> RenderOf(items[i]).s]

RECURSIVE Separated(_, _)
\* texts[1] + sep + texts[2] + ... + sep + texts[n], for n >= 1.
Separated(texts, sep) ==
    IF Len(texts) = 1 THEN texts[1]
    ELSE Separated(SubSeq(texts, 1, Len(texts) - 1), sep) \o sep
         \o texts[Len(texts)]

\* The text holds no parenthesis.
NoParentheses(text) == \A i \in 1..Len(text) : text[i] \notin {"(", ")"}

\* The input's description is a non-empty string.
HasDescription == json.description.t = "string" /\ json.description.s # <<>>

(* ---------------- C1 --------------------------------------------------- *)

\* C1: a Type built from a bare string s renders as exactly s, whatever the
\* text of s is. The code dispatches on the bare string as if it were a
\* complex_type, so the six discriminator names do not round-trip.
C1_BareStringRoundTrip ==
    (pc = "done" /\ json.t = "string") => result = json

(* ---------------- C2 --------------------------------------------------- *)

\* C2: a union with options o1..on (n >= 1) renders as
\* render(o1) | ... | render(on), in option order, and no parentheses are
\* added anywhere, also when the union is nested in a union, an array, a
\* dictionary or a tuple.
C2_UnionJoinsOptions ==
    /\ (/\ pc = "done"
        /\ InputIs(s_union)
        /\ json.options.t = "array"
        /\ Len(json.options.items) >= 1
        /\ \A i \in 1..Len(json.options.items) : Renders(json.options.items[i]))
       => result = Str(Separated(RenderAll(json.options.items), <<" ", "|", " ">>))
    /\ (pc = "done" /\ result.t = "string") => NoParentheses(result.s)

\* A union whose first option is itself a union of two options has been
\* rendered.
C2_Witness ==
    /\ pc = "done"
    /\ InputIs(s_union)
    /\ json.options.t = "array"
    /\ Len(json.options.items) = 2
    /\ json.options.items[1].t = "object"
    /\ json.options.items[1].complex_type = Str(s_union)
    /\ json.options.items[1].options.t = "array"
    /\ Len(json.options.items[1].options.items) = 2
    /\ result.t = "string"

(* ---------------- C3 --------------------------------------------------- *)

\* C3: a literal whose value is a string renders as  string """<text>"
\* where <text> is the description when the literal has one (a non-empty
\* one: the constructor stores an empty description as null) and the
\* literal's own string value otherwise.
C3_LiteralString ==
    (pc = "done" /\ InputIs(s_literal) /\ json.value.t = "string")
    => result = Str(<<"s", "t", "r", "i", "n", "g", " ", "\"", "\"", "\"">>
                    \o (IF HasDescription THEN json.description.s
                        ELSE json.value.s)
                    \o <<"\"">>)

\* A string literal with a description and one without have been rendered.
C3_Witness ==
    /\ pc = "done"
    /\ InputIs(s_literal)
    /\ json.value = Str(s_foo)
    /\ HasDescription
    /\ result = Str(s_stringOpen \o s_tick \o s_quote)

(* ---------------- C4 --------------------------------------------------- *)

\* C4: a literal whose value is a number or a boolean (0 and false
\* included) renders as  <kind> <description>  when it has a description
\* and as  <kind>  otherwise, <kind> being number or boolean; a literal
\* whose value is null or absent renders as  any .
C4_LiteralOther ==
    LET kind == IF json.value.t = "number"
                THEN <<"n", "u", "m", "b", "e", "r">>
                ELSE <<"b", "o", "o", "l", "e", "a", "n">> IN
    /\ (pc = "done" /\ InputIs(s_literal)
        /\ json.value.t \in {"number", "boolean"})
       => result = Str(IF HasDescription
                       THEN kind \o <<" ">> \o json.description.s
                       ELSE kind)
    /\ (pc = "done" /\ InputIs(s_literal)
        /\ json.value.t \in {"null", "undefined"})
       => result = Str(<<"a", "n", "y">>)

\* The literal 0 with a description has been rendered.
C4_Witness ==
    /\ pc = "done"
    /\ InputIs(s_literal)
    /\ json.value = Num(0)
    /\ HasDescription
    /\ result = Str(s_number \o s_space \o s_tick)

(* ---------------- C5 --------------------------------------------------- *)

\* C5: an array with element X, a nested type or a bare primitive, renders
\* as render(X) followed by [].
C5_Array ==
    (pc = "done" /\ InputIs(s_array) /\ Renders(json.value))
    => result = Str(RenderOf(json.value).s \o <<"[", "]">>)

\* An array of a nested type has been rendered.
C5_Witness ==
    /\ pc = "done"
    /\ InputIs(s_array)
    /\ json.value.t = "object"
    /\ Renders(json.value)
    /\ result.t = "string"

(* ---------------- C6 --------------------------------------------------- *)

\* C6: a dictionary with key K and value V, each a nested type or a bare
\* string, renders as table<render(K), render(V)>. The code wraps a bare
\* string key in a Type, so a key that is a discriminator name does not
\* render as itself (stated here for keys other than the empty string,
\* which the code stores as null).
C6_Dictionary ==
    (/\ pc = "done"
     /\ InputIs(s_dictionary)
     /\ json.key.t \in {"string", "object"}
     /\ json.key # Str(<<>>)
     /\ json.value.t \in {"string", "object"}
     /\ Renders(json.key)
     /\ Renders(json.value))
    => result = Str(<<"t", "a", "b", "l", "e", "<">> \o RenderOf(json.key).s
                    \o <<",", " ">> \o RenderOf(json.value).s \o <<">">>)

(* ---------------- C7 --------------------------------------------------- *)

\* C7: a tuple with the non-empty member list e1..en renders as
\* tuple<render(e1), ..., render(en)>, the members in their input order.
C7_Tuple ==
    (/\ pc = "done"
     /\ InputIs(s_tuple)
     /\ json.values.t = "array"
     /\ Len(json.values.items) >= 1
     /\ \A i \in 1..Len(json.values.items) : Renders(json.values.items[i]))
    => result = Str(<<"t", "u", "p", "l", "e", "<">>
                    \o Separated(RenderAll(json.values.items), <<",", " ">>)
                    \o <<">">>)

\* A tuple of two members that render differently has been rendered.
C7_Witness ==
    /\ pc = "done"
    /\ InputIs(s_tuple)
    /\ json.values.t = "array"
    /\ Len(json.values.items) = 2
    /\ Renders(json.values.items[1])
    /\ Renders(json.values.items[2])
    /\ RenderOf(json.values.items[1]) # RenderOf(json.values.items[2])
    /\ json.values.items[2].t = "object"
    /\ result.t = "string"

(* ---------------- C8 --------------------------------------------------- *)

\* C8: an alias (complex_type "type") that wraps X, a nested type or a bare
\* primitive, renders as exactly render(X), at any nesting depth.
C8_Alias ==
    (/\ pc = "done"
     /\ InputIs(s_type)
     /\ (IsPrimitive(json.value) \/ json.value.t = "object"))
    => result = RenderOf(json.value)

\* An alias of an alias has been rendered.
C8_Witness ==
    /\ pc = "done"
    /\ InputIs(s_type)
    /\ json.value.t = "object"
    /\ json.value.complex_type = Str(s_type)
    /\ result.t = "string"

(* ---------------- C9 --------------------------------------------------- *)

\* C9: a JSON object whose complex_type is a string outside the six
\* discriminators is accepted without error and renders as that string
\* unchanged, whatever key, value, values, options and description it has.
C9_UnknownKindIsName ==
    (/\ json.t = "object"
     /\ json.complex_type.t = "string"
     /\ json.complex_type.s \notin Discriminators)
    => /\ pc # "failed"
       /\ pc # "start" => type.t = "Type"
       /\ pc = "done" => result = json.complex_type

\* An object of unknown kind that carries every payload field has been
\* rendered.
C9_Witness ==
    /\ pc = "done"
    /\ json.t = "object"
    /\ json.complex_type = Str(s_foo)
    /\ json.key # Undefined
    /\ json.value # Undefined
    /\ json.values # Undefined
    /\ json.options # Undefined
    /\ json.description # Undefined
    /\ result = Str(s_foo)

(* ---------------- C10 -------------------------------------------------- *)

\* The field stored matches the shape of the JSON field jf: a nested Type
\* for an object, the primitive itself for a string, number or boolean.
StoredByShape(jf, stored) ==
    /\ jf.t = "object" => stored.t = "Type"
    /\ IsPrimitive(jf) => stored = jf

\* C10: the constructor stores key, value, each member of values and each
\* member of options by JSON shape: an object as a nested Type, a primitive
\* as that primitive, not wrapped. The code stores a bare string key as a
\* Type and a falsy key as null.
C10_StoredByShape ==
    (pc \in {"built", "done"} /\ json.t = "object")
    => /\ StoredByShape(json.key, type.key)
       /\ StoredByShape(json.value, type.value)
       /\ json.values.t = "array" =>
            \A i \in 1..Len(json.values.items) :
                StoredByShape(json.values.items[i], type.values.items[i])
       /\ json.options.t = "array" =>
            \A i \in 1..Len(json.options.items) :
                StoredByShape(json.options.items[i], type.options.items[i])

(* ---------------- what the claims on declarations speak of ------------ *)

\* The entity of class c was built and its declaration method returned.
Done(c) == cls = c /\ pc = "done" /\ result # Thrown

\* The text of the description the input JSON carries; none is no text.
DescriptionOf(j) ==
    IF Get(j, "description").t = "string" THEN Get(j, "description").s
    ELSE <<>>

\* The position of the first newline of a text, one past its end when it
\* has none.
FirstNewline(text) ==
    CHOOSE n \in 1..(Len(text) + 1) :
        /\ n = Len(text) + 1 \/ text[n] = s_newline
        /\ \A m \in 1..(n - 1) : text[m] # s_newline

\* The first line of a text.
BeforeNewline(text) == SubSeq(text, 1, FirstNewline(text) - 1)

\* "---@field " + name + segment + first line of the description.
FieldOf(j, segment) ==
    Str(s_fieldTag \o PrimText(Get(j, "name")) \o segment
        \o BeforeNewline(DescriptionOf(j)))

\* A type of the input JSON was given.
Given(x) == Truthy(x)

\* C11: DefineValue.toField() returns "---@field " + name + " " + the name
\* in double quotes + " " + the first line of the description.
C11_DefineValueField ==
    Done("DefineValue") /\ BeforeNewline(DescriptionOf(json)) # <<>> =>
        result = FieldOf(json, s_space \o s_quote \o PrimText(Get(json, "name"))
                               \o s_quote \o s_space)

\* The type segment the specification gives an Attribute.
AttributeSegment(j) ==
    LET r == Get(j, "read_type")
        w == Get(j, "write_type") IN
    IF Given(r) /\ Given(w) THEN RenderOf(r).s \o s_bar \o RenderOf(w).s
    ELSE IF Given(r) THEN RenderOf(r).s
    ELSE IF Given(w) THEN RenderOf(w).s
    ELSE s_any

\* C12: Attribute.toField() returns "---@field " + name + " " + T + " " +
\* the first line of the description, T being render(read_type) + " | " +
\* render(write_type) when both were given, the one rendered type when only
\* one was given, and any when none was.
C12_AttributeField ==
    Done("Attribute") =>
        result = FieldOf(json, s_space \o AttributeSegment(json) \o s_space)

\* C12 witness: the declaration of a write-only attribute.
C12_Witness ==
    /\ Done("Attribute")
    /\ Get(json, "read_type") = Undefined
    /\ Get(json, "write_type") = Str(s_int)
    /\ Get(json, "description") = Str(s_twoLines)

\* <name>:<type segment> of the parameters of the built method, in order.
ParameterTexts(parameters) ==
    [i \in 1..Len(parameters) |->
        PrimText(parameters[i].name) \o s_colon
        \o ParameterTypeStr(parameters[i]).s]

\* The list P between the parentheses of a method's signature.
Signature(self) ==
    IF self.parameters = Null \/ self.parameters.items = <<>> THEN <<>>
    ELSE Separated(ParameterTexts(self.parameters.items), s_comma)

\* C13: Method.toField() returns "---@field " + name + " fun(" + P + ") " +
\* the first line of the description, P being the parameters in input order
\* as <name>:<type> joined by ", ", and empty for an empty or absent list.
C13_MethodField ==
    Done("Method") =>
        /\ result = FieldOf(json, s_funOpen \o Signature(entity) \o s_funClose)
        /\ entity.parameters # Null =>
              /\ Get(json, "parameters").t = "array"
              /\ Len(entity.parameters.items)
                    = Len(Get(json, "parameters").items)
              /\ \A i \in 1..Len(Get(json, "parameters").items) :
                    entity.parameters.items[i].name
                        = Get(json, "parameters").items[i].name
        /\ entity.parameters = Null => Get(json, "parameters").t # "array"

\* C13 witness: the declaration of a method of two parameters.
C13_Witness ==
    /\ Done("Method")
    /\ Get(json, "parameters").t = "array"
    /\ Len(Get(json, "parameters").items) = 2
    /\ Get(json, "parameters").items[1].name
           # Get(json, "parameters").items[2].name

\* The text of a type name without its  defines.  prefix; any other text
\* is left as it is.
WithoutPrefix(text) ==
    IF StartsWith(text, s_defines)
    THEN SubSeq(text, Len(s_defines) + 1, Len(text))
    ELSE text

\* x is the JSON of a type name or of a literal.
NameOrLiteral(x) ==
    \/ x.t = "string"
    \/ x.t = "object" /\ Get(x, "complex_type") = Str(s_literal)

\* <name>:<rendered type, prefix stripped> of the JSON parameters, in order.
StrippedTexts(items) ==
    [i \in 1..Len(items) |->
        PrimText(items[i].name) \o s_colon
        \o WithoutPrefix(RenderOf(items[i].type).s)]

\* C14: in Method.toField() a  defines.  that is the prefix of a type name
\* is removed from a parameter's rendered type, and every other character
\* of the rendered type is left unchanged. Stated for the methods whose
\* parameter types are type names and literals.
C14_OnlyPrefixStripped ==
    LET ps == Get(json, "parameters") IN
    (/\ Done("Method")
     /\ ps.t = "array"
     /\ ps.items # <<>>
     /\ \A i \in 1..Len(ps.items) : NameOrLiteral(ps.items[i].type)) =>
        result = FieldOf(json, s_funOpen
                               \o Separated(StrippedTexts(ps.items), s_comma)
                               \o s_funClose)

\* C15: Property.toField() returns "---@field " + name + " " + render(type)
\* + " " + the first line of the description, the type segment being the
\* renderer's output unchanged.
C15_PropertyField ==
    Done("Property") /\ Given(Get(json, "type")) =>
        result = FieldOf(json, s_space \o RenderOf(Get(json, "type")).s
                               \o s_space)

\* C15 witness: the declaration of a property whose type name starts with
\* defines. .
C15_Witness ==
    /\ Done("Property")
    /\ Get(json, "type") = Str(s_definesDir)
    /\ Get(json, "description") = Str(s_tick)

\* The classes whose declaration is a field declaration.
Fields == {"Property", "DefineValue", "Attribute", "Method"}

\* The declaration the entity would give were its description empty.
Undescribed(self) ==
    Declaration([self EXCEPT !.description = Str(<<>>)])

\* C16: the description part of toField() of Property, DefineValue,
\* Attribute and Method is the text of the description before its first
\* newline, and the description field keeps the full text.
C16_FirstLineOnly ==
    (/\ cls \in Fields
     /\ pc = "done"
     /\ result # Thrown
     /\ Get(json, "description").t = "string") =>
        /\ result = Str(Undescribed(entity).s
                        \o BeforeNewline(Get(json, "description").s))
        /\ entity.description = Get(json, "description")

\* C16 witness: a field declaration made from a description of two lines.
C16_Witness ==
    /\ cls \in Fields
    /\ pc = "done"
    /\ result # Thrown
    /\ Get(json, "description") = Str(s_twoLines)

\* C17: every declaration string of Concept, Define, Prototype, Class,
\* Property, DefineValue, Attribute and Method holds no newline character.
C17_SingleLine ==
    (cls \in Declares /\ pc = "done" /\ result # Thrown) =>
        \A i \in 1..Len(result.s) : result.s[i] # s_newline

(* ---------------- what the claims on constructors speak of ------------ *)

\* The constructor of class c has returned or thrown.
Constructed(c) == cls = c /\ pc # "start"

\* The entries of a JSON operators list that are named call, index or
\* length, in input order.
KeptOperators(items) ==
    SelectSeq(items,
              LAMBDA o : Get(o, "name") \in {Str(s_call), Str(s_index),
                                             Str(s_length)})

\* A JSON operator entry exposes parameters or return_values.
Exposes(o) == Given(Get(o, "parameters")) \/ Given(Get(o, "return_values"))

\* C18: the operators list of a Class built from a JSON whose operators
\* field is an array is the entries named call, index or length in input
\* order, each a Method when its JSON exposes parameters or return_values
\* and an Attribute otherwise; other entries are dropped without an error.
C18_Operators ==
    Constructed("Class") /\ Get(json, "operators").t = "array" =>
        LET kept == KeptOperators(json.operators.items) IN
        /\ pc # "failed"
        /\ entity.operators.t = "array"
        /\ Len(entity.operators.items) = Len(kept)
        /\ \A i \in 1..Len(kept) :
              /\ entity.operators.items[i].name = kept[i].name
              /\ entity.operators.items[i]
                    = New(IF Exposes(kept[i]) THEN "Method" ELSE "Attribute",
                          kept[i])

\* C18 witness: a class built from a kept method operator, given with an
\* empty parameters list, and an operator of another name.
C18_Witness ==
    /\ Constructed("Class")
    /\ Get(json, "operators").t = "array"
    /\ Len(json.operators.items) = 2
    /\ json.operators.items[1].name = Str(s_foo)
    /\ json.operators.items[2].name = Str(s_index)
    /\ Get(json.operators.items[2], "parameters") = Arr(<<>>)
    /\ Len(entity.operators.items) = 1
    /\ entity.operators.items[1].t = "Method"

\* C19: a field of an entity that is absent from the input JSON is never
\* left undefined on the built entity. Stated for the JSON objects that
\* carry name, order, description, timeframe and filename where the class
\* has them.
C19_NeverUndefined ==
    (cls \in Classes /\ pc # "start" /\ json = Minimal(cls)) =>
        /\ pc # "failed"
        /\ \A f \in DOMAIN entity \ {"t"} : entity[f] # Undefined

\* C20: a list field of the input JSON that is present but no array is not
\* stored: construction returns and the field holds null or an empty list.
C20_WrongShapeFallsBack ==
    (cls \in Classes /\ pc # "start" /\ json \in Misshapen(cls)) =>
        /\ pc # "failed"
        /\ \A f \in ListFields(cls) \cap DOMAIN json :
              entity[f] \in {Null, Arr(<<>>)}

(* ---------------- what the claims on errors and defaults speak of ----- *)

\* {complex_type: "tuple", values: []}
EmptyTuple ==
    Node(s_tuple, Undefined, Undefined, Arr(<<>>), Undefined)

\* C21: a tuple of zero elements has no rendering: constructing and
\* rendering a Type from {complex_type: "tuple", values: []} does not
\* return a string.
C21_EmptyTupleRejected ==
    (cls = "Type" /\ json = EmptyTuple /\ pc = "done") =>
        result.t # "string"

\* C22: an entity built from a JSON object without name fails in the
\* constructor instead of giving an object that later renders.
C22_MissingNameFails ==
    (/\ cls \in NamedClasses
     /\ json.t = "object"
     /\ "name" \notin DOMAIN json
     /\ pc # "start") =>
        pc = "failed"

\* The JSON object of kind ct with every payload field absent.
Bare(ct) == Node(ct, Undefined, Undefined, Undefined, Undefined)

\* C23: for a Type built from a JSON object of one of the six kinds with
\* payload fields absent, construction does not raise and leaves the
\* absent fields null, and toString() returns a string. Stated for the
\* objects with every payload field absent.
C23_Total ==
    (/\ cls = "Type"
     /\ \E ct \in Discriminators : json = Bare(ct)
     /\ pc # "start") =>
        /\ pc # "failed"
        /\ type.key = Null /\ type.value = Null /\ type.values = Null
        /\ type.options = Null /\ type.description = Null
        /\ pc = "done" => result.t = "string"

\* C24: a constructor stores the value of a present optional field
\* unchanged: default of Property, instance_limit of Prototype and
\* takes_optional of MethodFormat hold the value the JSON gave, 0, false
\* and '' included.
C24_PresentValueKept ==
    (cls \in Classes /\ json \in Valued(cls) /\ pc # "start") =>
        /\ pc # "failed"
        /\ \A f \in ValueFields(cls) \cap DOMAIN json : entity[f] = json[f]


====
